---- MODULE Spec2Model ----
(***************************************************************************)
(* Market-regime segmentation of src/app.py: identify_market_phases        *)
(* (lines 370-424) and its call site (line 427).                           *)
(*                                                                         *)
(* Prices are positive integers.  The threshold is carried as a whole      *)
(* number of percent, so that                                              *)
(*     current_price >= trough * (1 + threshold)                           *)
(* is the exact comparison  current_price*100 >= trough*(100+threshold).   *)
(* A magnitude (a quotient in the code) is carried as the pair             *)
(* <<numerator, denominator>> and compared by cross-multiplication.        *)
(***************************************************************************)
EXTENDS Integers, Sequences, FiniteSets, TLC

VARIABLES monthly_avg,   \* the caller's series object (line 427)
          series,        \* parameter `series` of the running call
          threshold,     \* parameter `threshold`, in percent
          pc,            \* "idle" | "loop" | "done" | "error"
          err,           \* exception raised by the call, "none" if none
          i,             \* next value the iterator range(1, len(series)) yields
          in_bull, in_bear, start_idx, peak, trough,
          bull_markets, bear_markets,
          calls,         \* number of calls made so far
          firstIn,       \* arguments of the first call
          firstOut,      \* what the first call handed back
          \* the forecast block of tab3 (lines 853-900)
          fpc,           \* "start" | "predicted" | "filtered" | "metrics" |
                         \* "displayed" | "plotted" | "failed"
          ferr,          \* exception raised by the block, "none" if none
          now,           \* the day datetime.now() falls on
          predicted,     \* rows of model.predict(future_dates)
          forecast,      \* the frame `forecast' after the window filter
          next_day_price,
          days,          \* the number input "Quantos dias para prever?"
          df_to_display, \* rows of the table
          chart,         \* rows drawn by the three forecast traces
          \* the data preparation of tab1 (lines 51, 77-125)
          tpc,           \* "start" | "loaded" | "prepared" | "sidebar" |
                         \* "derived" | "failed"
          terr,          \* exception raised by the block, "none" if none
          data,          \* rows (Date, petrol_price) that load_data returned
          df,            \* the frame `df'
          ma50,          \* the slider "Media movel curta (dias)"
          \* two calls of identify_market_phases running side by side
          pseries,       \* the series object both calls were given
          loc            \* the local variables of each call

\* the state of the segmentation call
scanVars == <<monthly_avg, series, threshold, pc, err, i, in_bull, in_bear,
              start_idx, peak, trough, bull_markets, bear_markets,
              calls, firstIn, firstOut>>

\* the state of the forecast block
fvars == <<fpc, ferr, now, predicted, forecast, next_day_price, days,
           df_to_display, chart>>

\* the state of the data preparation
tvars == <<tpc, terr, data, df, ma50>>

\* the state of the two side-by-side calls
pvars == <<pseries, loc>>

\* everything the segmentation call leaves alone
others == <<fvars, tvars, pvars>>

vars == <<scanVars, others>>

-----------------------------------------------------------------------------
(* Bounds of the input domain *)

MaxLen == 5
MaxPrice == 6
MaxCalls == 3
MaxCallLen == 3
MaxCallPrice == 3

SeqsUpTo(S, n) == UNION {[1..k -> S] : k \in 0..n}

\* The two concrete series of the specification's scenarios.
ScenarioFlip == <<100, 100, 121, 121, 95, 95>>
ScenarioRise == <<50, 55, 60, 65, 70, 75, 80>>

\* 0.1, 0.2, 0.5, 0.75: on these the code's double-precision comparisons
\* agree with the exact ones for every series of the domain
ValidThresholds == {10, 20, 50, 75}
InvalidThresholds == {-50, 0, 100, 150}

SeriesInputs == SeqsUpTo(1..MaxPrice, MaxLen) \cup {ScenarioFlip, ScenarioRise}
ThresholdInputs == ValidThresholds \cup InvalidThresholds

CallSeriesInputs == SeqsUpTo(1..MaxCallPrice, MaxCallLen)
CallThresholdInputs == {20, 50}

-----------------------------------------------------------------------------
(* Helpers of the scan *)

\* series.iloc[k], k a 0-based position
iloc(s, k) == s[k + 1]

\* series.index[k]: the label of position k, a negative k counting from the end
index(s, k) == IF k < 0 THEN Len(s) + k ELSE k

\* a / b of the code, kept as an unreduced fraction
Frac(a, b) == <<a, b>>

\* the bull check without its mode guard `not in_bull'
BullConditionUnguarded(cp) == cp * 100 >= trough * (100 + threshold)

\* line 385
BullCondition(cp) == ~in_bull /\ cp * 100 >= trough * (100 + threshold)

\* line 398
BearCondition(cp) == ~in_bear /\ cp * 100 <= peak * (100 - threshold)

\* lines 388-389 and 421-422: the tuple appended to bear_markets
BearTuple(s, e, ie) ==
    <<s, e, index(series, s), index(series, ie), peak, trough,
      Frac(trough - peak, peak)>>

\* lines 401-402 and 418-419: the tuple appended to bull_markets
BullTuple(s, e, ie) ==
    <<s, e, index(series, s), index(series, ie), trough, peak,
      Frac(peak - trough, trough)>>

\* the peak is never raised
UpdatedPeakStale(ib, pk, cp) == pk

\* lines 411-412: peak after the extrema update, given the flags after the
\* confirmation branches
UpdatedPeak(ib, pk, cp) == IF ib /\ cp > pk THEN cp ELSE pk

\* the trough follows every new low, also while no phase is open
UpdatedTroughTracking(ib, ibear, pk, tr, cp) ==
    IF ib /\ cp > pk THEN tr
    ELSE IF cp < tr THEN cp ELSE tr

\* the trough is not lowered on the point that opens a Bear phase
UpdatedTroughStale(ib, ibear, pk, tr, cp) == tr

\* lines 411-414: trough after the extrema update (the elif runs only when
\* the peak branch did not)
UpdatedTrough(ib, ibear, pk, tr, cp) ==
    IF ib /\ cp > pk THEN tr
    ELSE IF ibear /\ cp < tr THEN cp ELSE tr

\* the Bear phase that a bull confirmation closes is not recorded
ClosedBearsDropped(k) == bear_markets

\* the closed Bear phase is given the confirming position as its end
ClosedBearsOffByOne(k) ==
    IF in_bear THEN Append(bear_markets, BearTuple(start_idx, k, k))
    ELSE bear_markets

\* lines 386-390: bear_markets after a bull confirmation at position k
ClosedBears(k) ==
    IF in_bear THEN Append(bear_markets, BearTuple(start_idx, k - 1, k - 1))
    ELSE bear_markets

\* the closed Bull phase is given the confirming position as its end
ClosedBullsOffByOne(k) ==
    IF in_bull THEN Append(bull_markets, BullTuple(start_idx, k, k))
    ELSE bull_markets

\* lines 399-403: bull_markets after a bear confirmation at position k
ClosedBulls(k) ==
    IF in_bull THEN Append(bull_markets, BullTuple(start_idx, k - 1, k - 1))
    ELSE bull_markets

\* the flushed Bull phase is made to start at the first point of the series
FlushedBullsFromZero ==
    IF in_bull
    THEN Append(bull_markets, BullTuple(0, Len(series) - 1, -1))
    ELSE bull_markets

\* lines 417-419
FlushedBulls ==
    IF in_bull
    THEN Append(bull_markets, BullTuple(start_idx, Len(series) - 1, -1))
    ELSE bull_markets

\* an open Bear phase is dropped at the end of the scan
FlushedBearsDropped == bear_markets

\* lines 420-422
FlushedBears ==
    IF ~in_bull /\ in_bear
    THEN Append(bear_markets, BearTuple(start_idx, Len(series) - 1, -1))
    ELSE bear_markets

\* the scan starts as if a phase were already open
InitialFlagOpen == TRUE

\* lines 375-376: the flags a call starts with
InitialFlag == FALSE

\* the output list survives from one call to the next
InitialListKept(old) == old

\* lines 371-372: the list a call starts with
InitialList(old) == <<>>

\* line 381: first value of range(1, len(series))
RangeStart == 1

\* What the caller gets: the returned pair, or the exception
Result == [status |-> IF pc = "done" THEN "returned" ELSE err,
           bull   |-> IF pc = "done" THEN bull_markets ELSE <<>>,
           bear   |-> IF pc = "done" THEN bear_markets ELSE <<>>]

-----------------------------------------------------------------------------
(* Operations *)

Init ==
    /\ monthly_avg = <<>>
    /\ series = <<>>
    /\ threshold = 0
    /\ pc = "idle"
    /\ err = "none"
    /\ i = 0
    /\ in_bull = FALSE
    /\ in_bear = FALSE
    /\ start_idx = 0
    /\ peak = 0
    /\ trough = 0
    /\ bull_markets = <<>>
    /\ bear_markets = <<>>
    /\ calls = 0
    /\ firstIn = [series |-> <<>>, threshold |-> 0]
    /\ firstOut = [status |-> "none", bull |-> <<>>, bear |-> <<>>]
    /\ fpc = "start"
    /\ ferr = "none"
    /\ now = 0
    /\ predicted = <<>>
    /\ forecast = <<>>
    /\ next_day_price = 0
    /\ days = 0
    /\ df_to_display = <<>>
    /\ chart = <<>>
    /\ tpc = "start"
    /\ terr = "none"
    /\ data = <<>>
    /\ df = <<>>
    /\ ma50 = 0
    /\ pseries = <<>>
    /\ loc = [c \in {1, 2} |->
                [threshold |-> 0, pc |-> "idle", i |-> 0,
                 in_bull |-> FALSE, in_bear |-> FALSE, start_idx |-> 0,
                 peak |-> 0, trough |-> 0,
                 bull_markets |-> <<>>, bear_markets |-> <<>>]]

\* lines 427 and 370-379: the call binds its arguments and initialises its
\* locals; series.iloc[0] raises IndexError on an empty series
Call(s, t) ==
    /\ pc \in {"idle", "done", "error"}
    /\ monthly_avg' = s
    /\ series' = s
    /\ threshold' = t
    /\ calls' = calls + 1
    /\ bull_markets' = InitialList(bull_markets)
    /\ bear_markets' = InitialList(bear_markets)
    /\ in_bull' = InitialFlag
    /\ in_bear' = InitialFlag
    /\ start_idx' = 0
    /\ IF Len(s) = 0
       THEN /\ pc' = "error"
            /\ err' = "IndexError"
            /\ peak' = 0
            /\ trough' = 0
            /\ i' = 0
            /\ IF calls = 0
               THEN /\ firstIn' = [series |-> s, threshold |-> t]
                    /\ firstOut' = [status |-> "IndexError",
                                    bull |-> <<>>, bear |-> <<>>]
               ELSE UNCHANGED <<firstIn, firstOut>>
       ELSE /\ pc' = "loop"
            /\ err' = "none"
            /\ peak' = iloc(s, 0)
            /\ trough' = iloc(s, 0)
            /\ i' = RangeStart
            /\ IF calls = 0
               THEN /\ firstIn' = [series |-> s, threshold |-> t]
                    /\ UNCHANGED firstOut
               ELSE UNCHANGED <<firstIn, firstOut>>
    /\ UNCHANGED others

\* lines 381-395 and 410-414: an iteration that takes the bull branch
ConfirmBull ==
    /\ pc = "loop"
    /\ i < Len(series)
    /\ LET cp == iloc(series, i) IN
       /\ BullCondition(cp)
       /\ bear_markets' = ClosedBears(i)
       /\ in_bear' = FALSE
       /\ in_bull' = TRUE
       /\ start_idx' = i
       /\ peak' = UpdatedPeak(TRUE, peak, cp)
       /\ trough' = UpdatedTrough(TRUE, FALSE, peak, cp, cp)
    /\ i' = i + 1
    /\ UNCHANGED <<monthly_avg, series, threshold, pc, err, bull_markets,
                   calls, firstIn, firstOut>>
    /\ UNCHANGED others

\* the bear check is an `if' of its own: it no longer yields to the bull check
ConfirmBearIndependent ==
    /\ pc = "loop"
    /\ i < Len(series)
    /\ LET cp == iloc(series, i) IN
       /\ BearCondition(cp)
       /\ bull_markets' = ClosedBulls(i)
       /\ in_bull' = FALSE
       /\ in_bear' = TRUE
       /\ start_idx' = i
       /\ peak' = UpdatedPeak(FALSE, cp, cp)
       /\ trough' = UpdatedTrough(FALSE, TRUE, cp, trough, cp)
    /\ i' = i + 1
    /\ UNCHANGED <<monthly_avg, series, threshold, pc, err, bear_markets,
                   calls, firstIn, firstOut>>
    /\ UNCHANGED others

\* lines 381-385, 397-408 and 410-414: an iteration that takes the bear branch
ConfirmBear ==
    /\ pc = "loop"
    /\ i < Len(series)
    /\ LET cp == iloc(series, i) IN
       /\ ~BullCondition(cp)
       /\ BearCondition(cp)
       /\ bull_markets' = ClosedBulls(i)
       /\ in_bull' = FALSE
       /\ in_bear' = TRUE
       /\ start_idx' = i
       /\ peak' = UpdatedPeak(FALSE, cp, cp)
       /\ trough' = UpdatedTrough(FALSE, TRUE, cp, trough, cp)
    /\ i' = i + 1
    /\ UNCHANGED <<monthly_avg, series, threshold, pc, err, bear_markets,
                   calls, firstIn, firstOut>>
    /\ UNCHANGED others

\* lines 381-385, 398 and 410-414: an iteration that confirms nothing
Hold ==
    /\ pc = "loop"
    /\ i < Len(series)
    /\ LET cp == iloc(series, i) IN
       /\ ~BullCondition(cp)
       /\ ~BearCondition(cp)
       /\ peak' = UpdatedPeak(in_bull, peak, cp)
       /\ trough' = UpdatedTrough(in_bull, in_bear, peak, trough, cp)
    /\ i' = i + 1
    /\ UNCHANGED <<monthly_avg, series, threshold, pc, err, in_bull, in_bear,
                   start_idx, bull_markets, bear_markets,
                   calls, firstIn, firstOut>>
    /\ UNCHANGED others

\* lines 416-424: the range is exhausted, the open phase is appended and the
\* two lists are returned
Flush ==
    /\ pc = "loop"
    /\ i >= Len(series)
    /\ bull_markets' = FlushedBulls
    /\ bear_markets' = FlushedBears
    /\ pc' = "done"
    /\ IF calls = 1
       THEN firstOut' = [status |-> "returned", bull |-> bull_markets',
                         bear |-> bear_markets']
       ELSE UNCHANGED firstOut
    /\ UNCHANGED <<monthly_avg, series, threshold, err, i, in_bull, in_bear,
                   start_idx, peak, trough, calls, firstIn>>
    /\ UNCHANGED others

\* one call, on any input
CallOnce ==
    /\ calls = 0
    /\ \E s \in SeriesInputs, t \in ThresholdInputs : Call(s, t)

\* a call after the other, on any input of the smaller domain
CallAgain ==
    /\ calls < MaxCalls
    /\ \E s \in CallSeriesInputs, t \in CallThresholdInputs : Call(s, t)

Next == CallOnce \/ ConfirmBull \/ ConfirmBear \/ Hold \/ Flush

Spec == Init /\ [][Next]_vars

NextCalls == CallAgain \/ ConfirmBull \/ ConfirmBear \/ Hold \/ Flush

SpecCalls == Init /\ [][NextCalls]_vars

-----------------------------------------------------------------------------
(* The forecast block of tab3, lines 853-900.  Dates are day numbers       *)
(* counted from 2025-05-01; the frames are sequences of rows.              *)

\* line 861: make_future_dataframe(periods=90)
Periods == 90
\* line 866: start_dt = pd.to_datetime("2025-05-01"), day 0
StartDt == 0
\* line 886: st.number_input(..., min_value=1, max_value=15, value=7)
MinDays == 1
MaxDays == 15

\* number of history rows the fitted model carries
HistDays == 3
\* the last day of the model's history, and the days the block may run on
LastTrainDays == {-100, 0, 5}
NowDays == {2, 10, 96}
\* the row of the model's output that is malformed, by its distance from the
\* last history day, and the way it is malformed
BadOffsets == {-1, 2, 6}
BadChoices == {<<0, "ok">>} \cup (BadOffsets \X {"crossed", "above", "below"})

\* a row of model.predict for day d
PredictedRow(d, shape) ==
    LET y == 60 + (d % 5) IN
    CASE shape = "ok"      -> [ds |-> d, yhat |-> y, yhat_lower |-> y - 5, yhat_upper |-> y + 5]
      [] shape = "crossed" -> [ds |-> d, yhat |-> y, yhat_lower |-> y + 5, yhat_upper |-> y - 5]
      [] shape = "above"   -> [ds |-> d, yhat |-> y, yhat_lower |-> y - 9, yhat_upper |-> y - 3]
      [] shape = "below"   -> [ds |-> d, yhat |-> y, yhat_lower |-> y + 3, yhat_upper |-> y + 9]

\* lines 861-862: the model's history days followed by 90 future days, one
\* row each, in date order
Predictions(lt, bad) ==
    [k \in 1..(HistDays + Periods) |->
        LET d == lt - HistDays + k IN
        PredictedRow(d, IF bad[2] # "ok" /\ d = lt + bad[1] THEN bad[2] ELSE "ok")]

\* lines 872-874: .loc[(index >= start_dt) & (index <= next_dt)], next_dt
\* being a time of day n + 1 and the index holding midnights
InWindow(r, n) == r.ds >= StartDt /\ r.ds <= n + 1
WindowRows(rows, n) == SelectSeq(rows, LAMBDA r : InWindow(r, n))

\* line 888: forecast[['ds', 'yhat']]
TwoColumns(rows) == [k \in DOMAIN rows |-> [ds |-> rows[k].ds, yhat |-> rows[k].yhat]]

\* line 888: .sort_index() on the ds index (the dates are distinct)
SortIndex(rows) ==
    [k \in DOMAIN rows |->
        CHOOSE r \in {rows[j] : j \in DOMAIN rows} :
            Cardinality({j \in DOMAIN rows : rows[j].ds < r.ds}) = k - 1]

\* line 888: [:future_dt], a slice by date label that keeps that day
UpTo(rows, d) == SelectSeq(rows, LAMBDA r : r.ds <= d)

\* line 888: .tail(n)
Tail_(rows, n) ==
    IF Len(rows) <= n THEN rows ELSE SubSeq(rows, Len(rows) - n + 1, Len(rows))

\* lines 861-862
Predict ==
    /\ fpc = "start"
    /\ \E lt \in LastTrainDays, bad \in BadChoices :
          predicted' = Predictions(lt, bad)
    /\ fpc' = "predicted"
    /\ UNCHANGED <<ferr, now, forecast, next_day_price, days, df_to_display,
                   chart>>
    /\ UNCHANGED <<scanVars, tvars, pvars>>

\* lines 864-875
FilterWindow ==
    /\ fpc = "predicted"
    /\ \E n \in NowDays :
          /\ now' = n
          /\ forecast' = WindowRows(predicted, n)
    /\ fpc' = "filtered"
    /\ UNCHANGED <<ferr, predicted, next_day_price, days, df_to_display, chart>>
    /\ UNCHANGED <<scanVars, tvars, pvars>>

\* lines 877-883: forecast['yhat'].iloc[-1] raises IndexError on an empty frame
Metrics ==
    /\ fpc = "filtered"
    /\ IF forecast = <<>>
       THEN /\ fpc' = "failed"
            /\ ferr' = "IndexError"
            /\ UNCHANGED next_day_price
       ELSE /\ fpc' = "metrics"
            /\ next_day_price' = forecast[Len(forecast)].yhat
            /\ UNCHANGED ferr
    /\ UNCHANGED <<now, predicted, forecast, days, df_to_display, chart>>
    /\ UNCHANGED <<scanVars, tvars, pvars>>

\* lines 886-890
Display ==
    /\ fpc = "metrics"
    /\ \E n \in MinDays..MaxDays :
          /\ days' = n
          /\ df_to_display' =
                Tail_(UpTo(SortIndex(TwoColumns(forecast)), now + n), n)
    /\ fpc' = "displayed"
    /\ UNCHANGED <<ferr, now, predicted, forecast, next_day_price, chart>>
    /\ UNCHANGED <<scanVars, tvars, pvars>>

\* lines 893-900: the traces Previsao, Limite superior and Limite inferior
Plot ==
    /\ fpc = "displayed"
    /\ chart' = forecast
    /\ fpc' = "plotted"
    /\ UNCHANGED <<ferr, now, predicted, forecast, next_day_price, days,
                   df_to_display>>
    /\ UNCHANGED <<scanVars, tvars, pvars>>

NextForecast == Predict \/ FilterWindow \/ Metrics \/ Display \/ Plot

SpecForecast == Init /\ [][NextForecast]_vars

-----------------------------------------------------------------------------
(* The data preparation of tab1, lines 51 and 77-125.  Dates are day       *)
(* numbers.  A cell that pandas leaves undefined (NaN) is the empty tuple, *)
(* a defined cell the one-element tuple of its value.  Of the derived      *)
(* columns, ma50, price_change and price_pct_change are carried.           *)

\* bounds of the raw table
MaxRaw == 3
MaxDate == 2
RawPrices == {-1, 0, 2, 3}
RawRows == [Date : 1..MaxDate, petrol_price : RawPrices]
RawInputs == SeqsUpTo(RawRows, MaxRaw)

\* line 89: st.sidebar.slider("...", 10, 100, 50): lowest, default, highest
SliderValues == {10, 50, 100}

NaN == <<>>

\* line 83: df.sort_values(by='Date'): the rows in date order; the default
\* sort is not stable, so rows of one date may come out in any order
IsSortedByDate(rows) ==
    \A j, k \in DOMAIN rows : j < k => rows[j].Date <= rows[k].Date
SortedByDate(rows) ==
    {[k \in DOMAIN rows |-> rows[f[k]]] : f \in Permutations(DOMAIN rows)}
SortValues(rows) == {r \in SortedByDate(rows) : IsSortedByDate(r)}

RECURSIVE SumPrices(_, _, _)
SumPrices(rows, lo, hi) ==
    IF lo > hi THEN 0 ELSE rows[lo].petrol_price + SumPrices(rows, lo + 1, hi)

\* line 120: rolling(window=w).mean() at row k: undefined until w rows exist
RollingMean(rows, w, k) ==
    IF k < w THEN NaN ELSE <<Frac(SumPrices(rows, k - w + 1, k), w)>>

\* line 122: diff()
PriceChange(rows, k) ==
    IF k = 1 THEN NaN ELSE <<rows[k].petrol_price - rows[k - 1].petrol_price>>

\* line 123: pct_change() * 100; a zero previous price gives inf or NaN,
\* kept as a fraction of denominator 0
PricePctChange(rows, k) ==
    IF k = 1 THEN NaN
    ELSE <<Frac((rows[k].petrol_price - rows[k - 1].petrol_price) * 100,
                rows[k - 1].petrol_price)>>

\* line 51: data = load_data()
Load ==
    /\ tpc = "start"
    /\ \E rows \in RawInputs : data' = rows
    /\ tpc' = "loaded"
    /\ UNCHANGED <<terr, df, ma50>>
    /\ UNCHANGED <<scanVars, fvars, pvars>>

\* lines 77-84
Prepare ==
    /\ tpc = "loaded"
    /\ df' \in SortValues(data)
    /\ tpc' = "prepared"
    /\ UNCHANGED <<terr, data, ma50>>
    /\ UNCHANGED <<scanVars, fvars, pvars>>

\* lines 86-90: df.index.max() of an empty frame is NaT, whose strftime raises
Sidebar ==
    /\ tpc = "prepared"
    /\ IF df = <<>>
       THEN /\ tpc' = "failed"
            /\ terr' = "ValueError"
            /\ UNCHANGED ma50
       ELSE /\ tpc' = "sidebar"
            /\ ma50' \in SliderValues
            /\ UNCHANGED terr
    /\ UNCHANGED <<data, df>>
    /\ UNCHANGED <<scanVars, fvars, pvars>>

\* lines 118-125
Derive ==
    /\ tpc = "sidebar"
    /\ df' = [k \in DOMAIN df |->
                [Date |-> df[k].Date,
                 petrol_price |-> df[k].petrol_price,
                 ma50 |-> RollingMean(df, ma50, k),
                 price_change |-> PriceChange(df, k),
                 price_pct_change |-> PricePctChange(df, k)]]
    /\ tpc' = "derived"
    /\ UNCHANGED <<terr, data, ma50>>
    /\ UNCHANGED <<scanVars, fvars, pvars>>

NextPrepare == Load \/ Prepare \/ Sidebar \/ Derive

SpecPrepare == Init /\ [][NextPrepare]_vars

-----------------------------------------------------------------------------
(* Two calls of identify_market_phases on one series object, their         *)
(* statements interleaved.  Each call has a frame of locals; a step of a   *)
(* call is its initialisation, one loop iteration, or its return.          *)

Callers == {1, 2}

\* lines 370-379: the frame after the initialisation
Enter(s, t) ==
    [threshold |-> t, pc |-> "loop", i |-> 1,
     in_bull |-> FALSE, in_bear |-> FALSE, start_idx |-> 0,
     peak |-> iloc(s, 0), trough |-> iloc(s, 0),
     bull_markets |-> <<>>, bear_markets |-> <<>>]

\* lines 388-389, 421-422 on a frame
FrameBearTuple(l, s, e, ie) ==
    <<l.start_idx, e, index(s, l.start_idx), index(s, ie), l.peak, l.trough,
      Frac(l.trough - l.peak, l.peak)>>

\* lines 401-402, 418-419 on a frame
FrameBullTuple(l, s, e, ie) ==
    <<l.start_idx, e, index(s, l.start_idx), index(s, ie), l.trough, l.peak,
      Frac(l.peak - l.trough, l.trough)>>

\* lines 381-414: one iteration of the loop on the frame l
Iterate(l, s) ==
    LET cp == iloc(s, l.i)
        bull == ~l.in_bull /\ cp * 100 >= l.trough * (100 + l.threshold)
        bear == ~bull /\ ~l.in_bear /\ cp * 100 <= l.peak * (100 - l.threshold)
        l1 == IF bull
              THEN [l EXCEPT !.bear_markets =
                                 IF l.in_bear
                                 THEN Append(@, FrameBearTuple(l, s, l.i - 1, l.i - 1))
                                 ELSE @,
                             !.in_bear = FALSE,
                             !.in_bull = TRUE,
                             !.start_idx = l.i,
                             !.trough = cp]
              ELSE IF bear
              THEN [l EXCEPT !.bull_markets =
                                 IF l.in_bull
                                 THEN Append(@, FrameBullTuple(l, s, l.i - 1, l.i - 1))
                                 ELSE @,
                             !.in_bull = FALSE,
                             !.in_bear = TRUE,
                             !.start_idx = l.i,
                             !.peak = cp]
              ELSE l
        l2 == IF l1.in_bull /\ cp > l1.peak THEN [l1 EXCEPT !.peak = cp]
              ELSE IF l1.in_bear /\ cp < l1.trough THEN [l1 EXCEPT !.trough = cp]
              ELSE l1
    IN  [l2 EXCEPT !.i = l.i + 1]

\* lines 416-424: the flush and the return on the frame l
Leave(l, s) ==
    LET l1 == IF l.in_bull
              THEN [l EXCEPT !.bull_markets =
                                 Append(@, FrameBullTuple(l, s, Len(s) - 1, -1))]
              ELSE IF l.in_bear
              THEN [l EXCEPT !.bear_markets =
                                 Append(@, FrameBearTuple(l, s, Len(s) - 1, -1))]
              ELSE l
    IN  [l1 EXCEPT !.pc = "done"]

\* the call run on its own, from the frame l to its return
RECURSIVE RunAlone(_, _)
RunAlone(l, s) ==
    IF l.pc # "loop" THEN l
    ELSE IF l.i < Len(s) THEN RunAlone(Iterate(l, s), s)
    ELSE RunAlone(Leave(l, s), s)

\* the running extrema are read from one place, as if peak and trough were
\* module-level names that the first call owns
FrameOfShared(c) == [loc[c] EXCEPT !.peak = loc[1].peak, !.trough = loc[1].trough]

\* the frame the statements of call c read
FrameOf(c) == loc[c]

\* the two calls are made, with different thresholds, on one series
ParBegin ==
    /\ \A c \in Callers : loc[c].pc = "idle"
    /\ \E s \in CallSeriesInputs, t1, t2 \in ValidThresholds :
          /\ t1 # t2
          /\ pseries' = s
          /\ loc' = [c \in Callers |->
                        [loc[c] EXCEPT !.pc = "entry",
                                       !.threshold = IF c = 1 THEN t1 ELSE t2]]
    /\ UNCHANGED <<scanVars, fvars, tvars>>

\* lines 370-379 of call c
ParEnter(c) ==
    /\ loc[c].pc = "entry"
    /\ loc' = [loc EXCEPT ![c] =
                  IF Len(pseries) = 0 THEN [@ EXCEPT !.pc = "error"]
                  ELSE Enter(pseries, FrameOf(c).threshold)]
    /\ UNCHANGED <<pseries, scanVars, fvars, tvars>>

\* lines 381-414 of call c
ParIterate(c) ==
    /\ loc[c].pc = "loop"
    /\ loc[c].i < Len(pseries)
    /\ loc' = [loc EXCEPT ![c] = Iterate(FrameOf(c), pseries)]
    /\ UNCHANGED <<pseries, scanVars, fvars, tvars>>

\* lines 416-424 of call c
ParLeave(c) ==
    /\ loc[c].pc = "loop"
    /\ loc[c].i >= Len(pseries)
    /\ loc' = [loc EXCEPT ![c] = Leave(FrameOf(c), pseries)]
    /\ UNCHANGED <<pseries, scanVars, fvars, tvars>>

ParEnterAny == \E c \in Callers : ParEnter(c)
ParIterateAny == \E c \in Callers : ParIterate(c)
ParLeaveAny == \E c \in Callers : ParLeave(c)

NextPar == ParBegin \/ ParEnterAny \/ ParIterateAny \/ ParLeaveAny

SpecPar == Init /\ [][NextPar]_vars

-----------------------------------------------------------------------------
(* Vocabulary of the properties *)

Finished == pc = "done"
ValidThreshold == threshold > 0 /\ threshold < 100
LastIndex == Len(series) - 1

\* the emitted phases, each named by its kind and its place in its list
Entries == {<<"Bull", k>> : k \in DOMAIN bull_markets}
           \cup {<<"Bear", k>> : k \in DOMAIN bear_markets}
KindOf(e) == e[1]
PhaseOf(e) == IF e[1] = "Bull" THEN bull_markets[e[2]] ELSE bear_markets[e[2]]
StartOf(e) == PhaseOf(e)[1]
EndOf(e) == PhaseOf(e)[2]
TroughOf(e) == IF e[1] = "Bull" THEN PhaseOf(e)[5] ELSE PhaseOf(e)[6]
PeakOf(e) == IF e[1] = "Bull" THEN PhaseOf(e)[6] ELSE PhaseOf(e)[5]
MagnitudeOf(e) == PhaseOf(e)[7]

\* e and f are neighbours when the phases are read by start_index
Consecutive(e, f) ==
    /\ e # f
    /\ StartOf(e) <= StartOf(f)
    /\ ~ \E g \in Entries \ {e, f} :
           StartOf(e) <= StartOf(g) /\ StartOf(g) <= StartOf(f)

\* sign of a fraction
FracSign(m) == IF m[1] * m[2] > 0 THEN 1 ELSE IF m[1] * m[2] < 0 THEN -1 ELSE 0
\* the fraction m equals a / b
FracEq(m, a, b) == m[2] # 0 /\ b # 0 /\ m[1] * b = a * m[2]

\* the values of the series at the positions lo..hi
ValuesIn(lo, hi) == {iloc(series, k) : k \in {n \in 0..LastIndex : lo <= n /\ n <= hi}}
LowestIn(lo, hi) == CHOOSE v \in ValuesIn(lo, hi) : \A w \in ValuesIn(lo, hi) : v <= w
HighestIn(lo, hi) == CHOOSE v \in ValuesIn(lo, hi) : \A w \in ValuesIn(lo, hi) : v >= w

-----------------------------------------------------------------------------
\* C1: with a threshold in (0,1), the phases emitted so far and at the end,
\* read by start_index, alternate: no two neighbours have the same kind.
C1_Alternate ==
    ValidThreshold =>
        \A e, f \in Entries : Consecutive(e, f) => KindOf(e) # KindOf(f)

\* a finished scan that emitted three phases, two of them of one kind
C1_Witness ==
    /\ Finished /\ ValidThreshold
    /\ Len(bull_markets) + Len(bear_markets) >= 3
    /\ bull_markets # <<>> /\ bear_markets # <<>>

\* C2: with a threshold in (0,1), every emitted Bull phase has a magnitude
\* >= 0 and every emitted Bear phase a magnitude <= 0.
C2_MagnitudeSign ==
    ValidThreshold =>
        \A e \in Entries :
            IF KindOf(e) = "Bull" THEN FracSign(MagnitudeOf(e)) >= 0
            ELSE FracSign(MagnitudeOf(e)) <= 0

\* a finished scan with a Bull of positive and a Bear of negative magnitude,
\* the Bear following a Bull
C2_Witness ==
    /\ Finished /\ ValidThreshold
    /\ \E e, f \in Entries :
          /\ KindOf(e) = "Bull" /\ FracSign(MagnitudeOf(e)) = 1
          /\ KindOf(f) = "Bear" /\ FracSign(MagnitudeOf(f)) = -1
          /\ StartOf(e) < StartOf(f)

\* C3: the reported trough and peak of every emitted phase are the lowest
\* and the highest value of the series at the positions start_index..end_index.
C3_ExtremaObserved ==
    (Finished /\ ValidThreshold) =>
        \A e \in Entries :
            /\ TroughOf(e) = LowestIn(StartOf(e), EndOf(e))
            /\ PeakOf(e) = HighestIn(StartOf(e), EndOf(e))

\* C4: when the scan ends with a phase open, exactly one phase ends at the
\* last index, it is of the open kind, it is the last of its list and it
\* starts at the open phase's start.
C4_OpenPhaseFlushed ==
    (Finished /\ (in_bull \/ in_bear)) =>
        LET open == IF in_bull THEN "Bull" ELSE "Bear"
            finals == {e \in Entries : EndOf(e) = LastIndex}
        IN  /\ Cardinality(finals) = 1
            /\ \A e \in finals :
                  /\ KindOf(e) = open
                  /\ StartOf(e) = start_idx
                  /\ e[2] = (IF open = "Bull" THEN Len(bull_markets)
                             ELSE Len(bear_markets))

\* a finished scan whose open Bear phase was flushed after a closed Bull
C4_Witness ==
    /\ Finished /\ in_bear /\ Len(bull_markets) >= 1
    /\ bear_markets # <<>>
    /\ bear_markets[Len(bear_markets)][2] = LastIndex
    /\ bear_markets[Len(bear_markets)][1] < LastIndex

\* C5: on <<100, 100, 121, 121, 95, 95>> with threshold 0.2 the result is
\* exactly a Bull phase over 0..3 (trough 100, peak 121, magnitude 0.21)
\* and a Bear phase over 4..5 (peak 121, trough 95, magnitude (95-121)/121).
C5_ScenarioFlipResult ==
    (Finished /\ series = ScenarioFlip /\ threshold = 20) =>
        /\ Len(bull_markets) = 1 /\ Len(bear_markets) = 1
        /\ bull_markets[1][1] = 0 /\ bull_markets[1][2] = 3
        /\ bull_markets[1][5] = 100 /\ bull_markets[1][6] = 121
        /\ FracEq(bull_markets[1][7], 21, 100)
        /\ bear_markets[1][1] = 4 /\ bear_markets[1][2] = 5
        /\ bear_markets[1][5] = 121 /\ bear_markets[1][6] = 95
        /\ FracEq(bear_markets[1][7], 95 - 121, 121)
        /\ in_bear

\* C6: on <<50, 55, 60, 65, 70, 75, 80>> with threshold 0.2 the result is
\* exactly one phase, an open Bull phase that spans the whole series
\* (positions 0..6) with its peak at the last value 80, and no Bear phase.
C6_ScenarioRiseResult ==
    (Finished /\ series = ScenarioRise /\ threshold = 20) =>
        /\ bear_markets = <<>>
        /\ Len(bull_markets) = 1
        /\ in_bull
        /\ bull_markets[1][1] = 0 /\ bull_markets[1][2] = 6
        /\ bull_markets[1][6] = 80

\* C7: a call with threshold <= 0 or >= 1 fails with InvalidParameterError
\* and produces no phase, whatever the series.
C7_InvalidThresholdRejected ==
    (pc # "idle" /\ ~ValidThreshold) =>
        /\ pc = "error"
        /\ err = "InvalidParameterError"
        /\ Entries = {}

\* C8: a series of fewer than 2 points never yields a phase; a 1-point
\* series raises nothing and returns two empty lists, a 0-point series fails.
C8_ShortSeriesNoPhase ==
    (pc # "idle" /\ Len(series) < 2) =>
        /\ Entries = {}
        /\ Len(series) = 1 => (err = "none" /\ pc \in {"loop", "done"})
        /\ Len(series) = 0 => pc = "error"

\* a 1-point series whose call has returned
C8_Witness ==
    Finished /\ Len(series) = 1 /\ Result.bull = <<>> /\ Result.bear = <<>>

\* C9: every emitted phase has start_index <= end_index; within each list a
\* later phase starts after every earlier one has ended; and any two emitted
\* phases are ordered the same way, one ending before the other starts.
C9_TimeOrdered ==
    /\ \A e \in Entries : StartOf(e) <= EndOf(e)
    /\ \A j, k \in DOMAIN bull_markets :
          j < k => bull_markets[k][1] > bull_markets[j][2]
    /\ \A j, k \in DOMAIN bear_markets :
          j < k => bear_markets[k][1] > bear_markets[j][2]
    /\ \A e, f \in Entries :
          e # f => (EndOf(e) < StartOf(f) \/ EndOf(f) < StartOf(e))

\* a finished scan with three phases, one of them longer than one point
C9_Witness ==
    /\ Finished
    /\ Cardinality(Entries) >= 3
    /\ \E e \in Entries : StartOf(e) < EndOf(e)

\* C10: a call with the arguments of the first call hands back what the
\* first call handed back, whatever calls were made in between, and the
\* caller's series is what it passed in.
C10_Pure ==
    /\ pc # "idle" => series = monthly_avg
    /\ (pc \in {"done", "error"} /\ calls >= 2
        /\ firstIn = [series |-> monthly_avg, threshold |-> threshold])
       => Result = firstOut

\* the third call repeats the first one's arguments and has returned phases
\* of both kinds
C10_Witness ==
    /\ Finished /\ calls = 3
    /\ firstIn = [series |-> monthly_avg, threshold |-> threshold]
    /\ bull_markets # <<>> /\ bear_markets # <<>>
    /\ Result = firstOut

\* the point the next iteration reads
Scanning == pc = "loop" /\ i < Len(series)
\* the two price conditions of lines 385 and 398, without their mode guards
BullPrice(cp) == cp * 100 >= trough * (100 + threshold)
BearPrice(cp) == cp * 100 <= peak * (100 - threshold)

\* C11: when no phase is open and the point read satisfies both price
\* conditions, the iteration enters Bull at that point and not Bear; and no
\* iteration ever leaves both flags set or opens a phase of each kind.
C11_BullPriority ==
    [][/\ (Scanning /\ ~in_bull /\ ~in_bear
             /\ BullPrice(iloc(series, i)) /\ BearPrice(iloc(series, i)))
          => (in_bull' /\ ~in_bear' /\ start_idx' = i
              /\ bull_markets' = bull_markets /\ bear_markets' = bear_markets)
       /\ ~(in_bull' /\ in_bear')
      ]_vars

\* the scan has just entered Bull, from no phase, on a point that met both
\* price conditions against value[0]
C11_Witness ==
    /\ pc = "loop" /\ in_bull /\ ~in_bear
    /\ bull_markets = <<>> /\ bear_markets = <<>>
    /\ start_idx = i - 1
    /\ iloc(series, start_idx) * 100 >= iloc(series, 0) * (100 + threshold)
    /\ iloc(series, start_idx) * 100 <= iloc(series, 0) * (100 - threshold)

\* a row whose bounds do not enclose its point estimate
Malformed(r) ==
    r.yhat_lower > r.yhat_upper \/ r.yhat < r.yhat_lower \/ r.yhat > r.yhat_upper
ModelMalformed == \E k \in DOMAIN predicted : Malformed(predicted[k])

\* C12: when the model returns a malformed row, the forecast block fails
\* (with ForecastUnavailableError) before anything is shown: it never gets
\* to the metrics, the table or the chart, and hands over no row.
C12_MalformedForecastRejected ==
    ModelMalformed =>
        /\ fpc \notin {"metrics", "displayed", "plotted"}
        /\ df_to_display = <<>>
        /\ chart = <<>>

\* the days of the table's rows
DisplayedDays == {df_to_display[k].ds : k \in DOMAIN df_to_display}

\* C13: the rows handed over for a horizon of N days are the rows of the
\* days now .. now + N: no row of another day, and a row for each day after
\* now (a block that cannot do so fails and shows no table).
C13_ForecastCoversHorizon ==
    fpc \in {"displayed", "plotted"} =>
        /\ DisplayedDays \subseteq now..(now + days)
        /\ (now + 1)..(now + days) \subseteq DisplayedDays

\* raw points that are empty, not strictly increasing in time, or that
\* hold a non-positive price
RawMalformed ==
    \/ data = <<>>
    \/ \E k \in DOMAIN data : data[k].petrol_price <= 0
    \/ \E j, k \in DOMAIN data : j < k /\ data[j].Date >= data[k].Date

\* C14: from malformed raw points no series and no derived field is ever
\* built (the build fails with DataError instead): they are never
\* reordered, dropped or accepted.
C14_MalformedRawRejected ==
    (tpc # "start" /\ RawMalformed) =>
        /\ df = <<>>
        /\ tpc \notin {"sidebar", "derived"}
        /\ data # <<>> => tpc \in {"loaded", "failed"}

\* what call c hands back when it runs with no other call
AloneResult(c) == RunAlone(Enter(pseries, loc[c].threshold), pseries)

\* C15: of two calls on one series with different thresholds, interleaved
\* in any order, each returns what it returns when run alone, and no step
\* of either writes the series.
C15_Isolated ==
    /\ [](\A c \in Callers :
            loc[c].pc = "done" =>
                /\ loc[c].bull_markets = AloneResult(c).bull_markets
                /\ loc[c].bear_markets = AloneResult(c).bear_markets)
    /\ [][(\E c \in Callers : loc[c].pc # "idle") => pseries' = pseries]_vars

\* both calls have returned, with different results, after the first
\* call's iterations were interleaved with the second's
C15_Witness ==
    /\ loc[1].pc = "done" /\ loc[2].pc = "done"
    /\ loc[1].threshold # loc[2].threshold
    /\ loc[1].bull_markets # loc[2].bull_markets
    /\ loc[1].bear_markets # <<>> /\ loc[2].bull_markets # <<>>

\* the frame-based scan and the scan of the single call agree
ScanAgrees ==
    Finished =>
        LET r == RunAlone(Enter(series, threshold), series)
        IN  r.bull_markets = bull_markets /\ r.bear_markets = bear_markets

\* the phase emitted right before the phase e, if any
Preceding(e) == {f \in Entries : EndOf(f) = StartOf(e) - 1}
ValueAt(k) == iloc(series, k)

\* C16: a Bull phase is confirmed at a point only if its value is at least
\* (1 + threshold) times the lowest value seen since the preceding Bear
\* phase began (value[0] when no phase precedes), and never at a point lower
\* than its predecessor; a Bear phase only if its value is at most
\* (1 - threshold) times the highest value seen since the preceding Bull
\* phase began, and never at a point higher than its predecessor.
C16_ConfirmedFromRecentExtremum ==
    (Finished /\ ValidThreshold) =>
        \A e \in Entries :
            LET b == StartOf(e)
                lows == {LowestIn(StartOf(f), b - 1) : f \in Preceding(e)}
                highs == {HighestIn(StartOf(f), b - 1) : f \in Preceding(e)}
            IN  IF KindOf(e) = "Bull"
                THEN /\ Preceding(e) = {} =>
                            ValueAt(b) * 100 >= ValueAt(0) * (100 + threshold)
                     /\ \A low \in lows :
                            ValueAt(b) * 100 >= low * (100 + threshold)
                     /\ ValueAt(b) >= ValueAt(b - 1)
                ELSE /\ Preceding(e) = {} =>
                            ValueAt(b) * 100 <= ValueAt(0) * (100 - threshold)
                     /\ \A high \in highs :
                            ValueAt(b) * 100 <= high * (100 - threshold)
                     /\ ValueAt(b) <= ValueAt(b - 1)

\* the positions whose value meets a confirmation condition against value[0]
ConfirmingAgainstFirst ==
    {k \in 1..LastIndex :
        \/ ValueAt(k) * 100 >= ValueAt(0) * (100 + threshold)
        \/ ValueAt(k) * 100 <= ValueAt(0) * (100 - threshold)}
\* the first of them
FirstConfirmation ==
    CHOOSE k \in ConfirmingAgainstFirst : \A j \in ConfirmingAgainstFirst : k <= j
\* the emitted phases that contain position k
Covering(k) == {e \in Entries : StartOf(e) <= k /\ k <= EndOf(e)}
\* the last tuple of a list
Last(q) == q[Len(q)]

\* C17: a confirmation at i that closes an open phase emits it with the
\* bounds start_idx .. i-1 and opens the next phase at i; so the emitted
\* phases are contiguous, the open phase starts right after the last
\* emitted one, and at the end every position from the first confirmation
\* to len-1 lies in exactly one phase.
C17_Contiguous ==
    /\ [](pc \in {"loop", "done"} =>
            /\ \A e, f \in Entries :
                  Consecutive(e, f) => StartOf(f) = EndOf(e) + 1
            /\ (pc = "loop" /\ (in_bull \/ in_bear)) =>
                  \A e \in Entries : EndOf(e) < start_idx
                                     /\ (\E f \in Entries : EndOf(f) = start_idx - 1)
            /\ (Finished /\ ConfirmingAgainstFirst # {}) =>
                  /\ \A k \in FirstConfirmation..LastIndex :
                        Cardinality(Covering(k)) = 1
                  /\ \A k \in 0..(FirstConfirmation - 1) : Covering(k) = {})
    /\ [][(Scanning /\ in_bear /\ in_bull') =>
             /\ start_idx' = i
             /\ Len(bear_markets') = Len(bear_markets) + 1
             /\ Last(bear_markets')[1] = start_idx
             /\ Last(bear_markets')[2] = i - 1]_vars
    /\ [][(Scanning /\ in_bull /\ in_bear') =>
             /\ start_idx' = i
             /\ Len(bull_markets') = Len(bull_markets) + 1
             /\ Last(bull_markets')[1] = start_idx
             /\ Last(bull_markets')[2] = i - 1]_vars

\* a finished scan of three phases whose first confirmation is not at
\* position 1
C17_Witness ==
    /\ Finished
    /\ Cardinality(Entries) >= 3
    /\ FirstConfirmation > 1
    /\ \E e \in Entries : EndOf(e) = LastIndex

Running == pc \in {"loop", "done"}
\* the positions of the open phase that the scan has read
OpenPositions == {k \in 0..LastIndex : start_idx <= k /\ k < i}

\* C18: while a Bull phase is open, peak is >= every value read since
\* start_idx and never decreases, and trough stays at value[start_idx];
\* while a Bear phase is open, trough is <= every value read since start_idx
\* and never increases, and peak stays at value[start_idx].
C18_ExtremaTracked ==
    /\ []((Running /\ in_bull) =>
            /\ trough = ValueAt(start_idx)
            /\ \A k \in OpenPositions : peak >= ValueAt(k))
    /\ []((Running /\ in_bear) =>
            /\ peak = ValueAt(start_idx)
            /\ \A k \in OpenPositions : trough <= ValueAt(k))
    /\ [][(in_bull /\ in_bull') => (peak' >= peak /\ trough' = trough)]_vars
    /\ [][(in_bear /\ in_bear') => (trough' <= trough /\ peak' = peak)]_vars

\* an open Bull phase of three points whose peak has risen above the
\* confirming value and which holds a value below its trough
C18_Witness ==
    /\ Running /\ in_bull
    /\ i - start_idx >= 3
    /\ peak > ValueAt(start_idx)
    /\ \E k \in OpenPositions : ValueAt(k) < trough

\* the first phase of the scan so far: <<kind, start>>, or nothing
FirstPhase ==
    IF Entries # {}
    THEN {<<KindOf(e), StartOf(e)>> :
             e \in {f \in Entries : \A g \in Entries : StartOf(f) <= StartOf(g)}}
    ELSE IF in_bull THEN {<<"Bull", start_idx>>}
    ELSE IF in_bear THEN {<<"Bear", start_idx>>}
    ELSE {}

\* C19: while no phase has been confirmed, peak and trough both equal
\* value[0]; the first phase opens at the first position whose value is
\* >= value[0]*(1+threshold) (a Bull) or <= value[0]*(1-threshold) (a Bear),
\* and at no other: a move measured from an intermediate low or high opens
\* nothing.
C19_FirstPhaseFromFirstValue ==
    Running =>
        /\ (~in_bull /\ ~in_bear) =>
              /\ peak = ValueAt(0) /\ trough = ValueAt(0)
              /\ Entries = {}
              /\ \A k \in ConfirmingAgainstFirst : k >= i
        /\ \A ph \in FirstPhase :
              /\ ConfirmingAgainstFirst # {}
              /\ ph[2] = FirstConfirmation
              /\ ph[1] = "Bull" <=>
                    ValueAt(ph[2]) * 100 >= ValueAt(0) * (100 + threshold)

\* a finished scan without any phase although the series rose by the
\* threshold or more from an intermediate low
C19_Witness ==
    /\ Finished /\ ValidThreshold
    /\ Entries = {}
    /\ \E j, k \in 1..LastIndex :
          j < k /\ ValueAt(k) * 100 >= ValueAt(j) * (100 + threshold)

\* C20: every emitted phase starts at position 1 or later and not before the
\* first confirming position; the positions before it lie in no phase; and a
\* series without a confirming position yields two empty lists.
C20_NothingBeforeFirstConfirmation ==
    Running =>
        /\ \A e \in Entries : StartOf(e) >= 1
        /\ ConfirmingAgainstFirst = {} => (bull_markets = <<>> /\ bear_markets = <<>>)
        /\ ConfirmingAgainstFirst # {} =>
              \A e \in Entries, k \in 0..(FirstConfirmation - 1) :
                  ~(StartOf(e) <= k /\ k <= EndOf(e))

\* a finished scan whose first phase starts at position 3 or later
C20_Witness ==
    /\ Finished /\ ValidThreshold
    /\ Entries # {}
    /\ \A e \in Entries : StartOf(e) >= 3

====
